---- MODULE Spec2Model ----
(***************************************************************************)
(* Model of the compliance pipeline of deploybackend:                      *)
(*   app/core/transaction_monitor.py  TransactionMonitor (asyncio tasks)   *)
(*   app/ai/policy_engine.py          PolicyEngine                         *)
(* Strings that the code inspects (addresses, numeric fields of the RPC    *)
(* records) are tuples of one-character strings, so that lower(),          *)
(* startswith("0x") and int() are computed, not assumed.                   *)
(***************************************************************************)
EXTENDS Integers, Sequences, FiniteSets, TLC

\* ------------------------------------------------------------------ bounds
MaxTasks == 3
MaxStops == 2
MaxVersion == 2
MaxDeliver == 2
PollTasks == 1
PollPage == 2
PollDeliver == 3
RingMaxVersion == 103
RingPage == 3
FilterMaxVersion == 2
MaxListed == 2
MaxAsync == 2
MaxSync == 1

\* ---------------------------------------------------------- program constants
RingCapacity == 100

\* ------------------------------------------------------------------ strings
LowerChar(c) ==
  CASE c = "A" -> "a"
    [] c = "B" -> "b"
    [] c = "C" -> "c"
    [] c = "D" -> "d"
    [] c = "E" -> "e"
    [] c = "F" -> "f"
    [] c = "X" -> "x"
    [] OTHER -> c

\* str.lower()
Lower(s) ==
  [i \in 1..Len(s) |-> LowerChar(s[i])]

\* str.startswith("0x")
StartsWith0x(s) ==
  Len(s) >= 2 /\ s[1] = "0" /\ s[2] = "x"

\* a key that is absent from a raw record (dict.get falls back to its default)
Missing == <<"<missing>">>

\* the failure of int(...)
ValueError == -2

DigitValue(c) ==
  CASE c = "0" -> 0
    [] c = "1" -> 1
    [] c = "2" -> 2
    [] c = "3" -> 3
    [] c = "4" -> 4
    [] c = "5" -> 5
    [] c = "6" -> 6
    [] c = "7" -> 7
    [] c = "8" -> 8
    [] c = "9" -> 9
    [] OTHER -> ValueError

RECURSIVE ParseDigits(_, _)
ParseDigits(s, acc) ==
  IF s = <<>> THEN acc
  ELSE IF DigitValue(Head(s)) = ValueError THEN ValueError
  ELSE ParseDigits(Tail(s), 10 * acc + DigitValue(Head(s)))

\* int(tx_data.get(key, 0)): a missing key gives 0, a decimal string its value,
\* anything else (the empty string included) raises ValueError
IntOf(field) ==
  IF field = Missing THEN 0
  ELSE IF field = <<>> THEN ValueError
  ELSE ParseDigits(field, 0)

\* ---------------------------------------------------------------- variables
VARIABLES
  running,         \* TransactionMonitor._running
  task,            \* TransactionMonitor._task: 0 is None, else the task's number
  lastVersion,     \* TransactionMonitor._last_version (NoVersion is None)
  recent,          \* TransactionMonitor._recent_transactions
  monitored,       \* TransactionMonitor._monitored_addresses
  callbacks,       \* TransactionMonitor._callbacks
  asyncCallbacks,  \* TransactionMonitor._async_callbacks
  created,         \* number of _monitor_loop tasks created so far
  tasks,           \* per _monitor_loop task: where it is suspended and its locals
  stopWait,        \* per task: number of stop() calls suspended in "await self._task"
  stopReturned,    \* history: a stop() has returned and no start() was called since
  delivered,       \* history: the events accepted and handed to _notify_callbacks, in order
  lastDone,        \* history: the last dispatch that ended (other than by cancellation)
  abandoned,       \* history: the records of the last page that were never looked at
  examined,        \* history: the last call of _should_process and its result
  rejected,        \* history: the records that advanced _last_version and were not delivered
  policies,        \* PolicyEngine._policies, in insertion order
  blocked,         \* PolicyEngine._blocked_addresses
  checked,         \* history: the last check_transaction call and its ComplianceResult
  scored,          \* history: the last calculate_risk_score call and its RiskScore
  connections,     \* ConnectionManager.active_connections
  broadcast,       \* history: the messages sent by manager.broadcast, in order
  handled          \* history: the last handle_transaction_event run that ended

monitorVars ==
  <<running, task, lastVersion, recent, monitored, callbacks, asyncCallbacks,
    created, tasks, stopWait, stopReturned, delivered, lastDone, abandoned, examined, rejected>>

engineVars ==
  <<policies, blocked>>

callVars ==
  <<checked, scored, connections, broadcast, handled>>

vars ==
  <<monitorVars, engineVars, callVars>>

TaskIds ==
  1..(IF MaxTasks > PollTasks THEN MaxTasks ELSE PollTasks)

\* self._last_version = None
NoVersion == -1

\* "self._last_version or 0"
OrZero(v) ==
  IF v = NoVersion THEN 0 ELSE v

\* _parse_transaction returning None
NoEvent ==
  [hash |-> <<>>, version |-> -1, sender |-> <<>>, gas |-> -1]

\* dict.get(key, "") of a string field
StrOf(field) ==
  IF field = Missing THEN <<>> ELSE field

\* _parse_transaction: the numeric coercions raise inside the try, whose handler
\* returns None; a missing hash or sender defaults to the empty string
ParseTransaction(tx) ==
  IF IntOf(tx.version) = ValueError \/ IntOf(tx.gas) = ValueError
  THEN NoEvent
  ELSE [hash |-> StrOf(tx.hash), version |-> IntOf(tx.version),
        sender |-> StrOf(tx.sender), gas |-> IntOf(tx.gas)]

\* _should_process
ShouldProcess(addrs, event) ==
  IF addrs = {} THEN TRUE
  ELSE (IF event.sender # <<>> THEN Lower(event.sender) ELSE <<>>) \in addrs

\* faulty variant: a full buffer refuses the new event instead of evicting the oldest
RingAppendKeepsOldest(buf, e) ==
  IF Len(buf) >= RingCapacity THEN buf ELSE Append(buf, e)

\* deque(maxlen=100).append
RingAppend(buf, e) ==
  IF Len(buf) >= RingCapacity THEN Append(Tail(buf), e) ELSE Append(buf, e)

\* add_monitored_address / remove_monitored_address: the stored form of an address
MonitoredForm(address) ==
  Lower(IF StartsWith0x(address) THEN address ELSE <<"0", "x">> \o address)

\* faulty variant: the calls are not guarded: an exception leaves _notify_callbacks
CallbackErrorPropagates(raised) ==
  raised

\* whether an exception raised by a callback leaves _notify_callbacks: each call
\* sits in its own try/except Exception
CallbackErrorEscapes(raised) ==
  FALSE

\* a task that has not ended
Alive(t) ==
  tasks[t].pc \in {"init", "ledger", "fetch", "cb", "sleep"}

IdleTask ==
  [pc |-> "unused", cancel |-> FALSE, page |-> <<>>, cur |-> NoEvent, idx |-> 0,
   nsync |-> 0, raised |-> FALSE, start |-> NoVersion, failedStart |-> NoVersion,
   atStart |-> <<>>, got |-> <<>>]

\* atStart, atEnd: _async_callbacks when the dispatch began and when it ended;
\* got: the asynchronous callbacks awaited in it, in order
NoDispatch ==
  [version |-> 0, nsync |-> 0, nasync |-> 0, rsync |-> 0, rasync |-> 0,
   raised |-> FALSE, dropped |-> 0, atStart |-> <<>>, atEnd |-> <<>>, got |-> <<>>]

\* the monitor's fields and one task's locals, as the code of one task step sees them
StepState(t) ==
  [last |-> lastVersion, recent |-> recent, delivered |-> delivered,
   lastDone |-> lastDone, abandoned |-> abandoned, examined |-> examined,
   rejected |-> rejected,
   pc |-> tasks[t].pc, page |-> tasks[t].page,
   cur |-> tasks[t].cur, idx |-> tasks[t].idx, nsync |-> tasks[t].nsync,
   raised |-> tasks[t].raised, atStart |-> tasks[t].atStart, got |-> tasks[t].got]

\* what is remembered of a call of _should_process
Examined(ev, verdict) ==
  [called |-> TRUE, sender |-> ev.sender, addrs |-> monitored, accepted |-> verdict]

\* what is remembered of a record whose version was newer and that was not
\* delivered: _parse_transaction returned None (parsed = FALSE) or _should_process
\* returned False
Rejected(version, sender, parsed) ==
  [version |-> version, sender |-> sender, parsed |-> parsed]

NotExamined ==
  [called |-> FALSE, sender |-> <<>>, addrs |-> {}, accepted |-> FALSE]

\* the end of _poll_transactions: back in _monitor_loop, awaiting asyncio.sleep
ToSleep(m) ==
  [m EXCEPT !.pc = "sleep", !.page = <<>>, !.cur = NoEvent, !.idx = 0,
            !.nsync = 0, !.raised = FALSE, !.atStart = <<>>, !.got = <<>>]

SetMin(S) ==
  CHOOSE x \in S : \A y \in S : x <= y

\* _poll_transactions from "for tx_data in transactions" on, run up to the next
\* suspension: the await of an asynchronous callback, or the sleep that follows
\* the page. sraise: the positions of the synchronous callbacks that raise.
RECURSIVE ProcessFrom(_, _, _)
ProcessFrom(m, recs, sraise) ==
  IF recs = <<>> THEN ToSleep(m)
  ELSE
    LET tx == Head(recs)
        v == IntOf(tx.version)
    IN
    IF v = ValueError
    THEN \* int() at line 136 raises: caught at line 147, the rest of the page is left
         ToSleep([m EXCEPT !.abandoned = Tail(recs)])
    ELSE IF v > OrZero(m.last)
    THEN
      LET m1 == [m EXCEPT !.last = v]
          ev == ParseTransaction(tx)
      IN
      IF ev = NoEvent
      THEN ProcessFrom([m1 EXCEPT !.rejected = @ \cup {Rejected(v, StrOf(tx.sender), FALSE)}],
                       Tail(recs), sraise)
      ELSE IF ~ShouldProcess(monitored, ev)
      THEN ProcessFrom([m1 EXCEPT !.examined = Examined(ev, FALSE),
                                  !.rejected = @ \cup {Rejected(v, ev.sender, TRUE)}],
                       Tail(recs), sraise)
      ELSE
        LET m2 == [m1 EXCEPT !.recent = RingAppend(@, ev),
                             !.delivered = Append(@, ev),
                             !.examined = Examined(ev, TRUE)]
            n == Len(callbacks)
            hits == sraise \cap (1..n)
        IN
        IF hits # {} /\ CallbackErrorEscapes(TRUE)
        THEN ToSleep([m2 EXCEPT !.lastDone =
                       [version |-> ev.version, nsync |-> SetMin(hits), nasync |-> 0,
                        rsync |-> n, rasync |-> Len(asyncCallbacks),
                        raised |-> TRUE, dropped |-> Len(recs) - 1,
                        atStart |-> asyncCallbacks, atEnd |-> asyncCallbacks,
                        got |-> <<>>]])
        ELSE IF asyncCallbacks = <<>>
        THEN ProcessFrom([m2 EXCEPT !.lastDone =
                           [version |-> ev.version, nsync |-> n, nasync |-> 0,
                            rsync |-> n, rasync |-> 0,
                            raised |-> hits # {}, dropped |-> 0,
                            atStart |-> <<>>, atEnd |-> <<>>, got |-> <<>>]],
                         Tail(recs), sraise)
        ELSE [m2 EXCEPT !.pc = "cb", !.page = Tail(recs), !.cur = ev, !.idx = 1,
                        !.nsync = n, !.raised = hits # {},
                        !.atStart = asyncCallbacks, !.got = <<asyncCallbacks[1]>>]
    ELSE ProcessFrom(m, Tail(recs), sraise)

\* write a step's outcome back to the monitor and to task t
Commit(t, m, start, failedStart) ==
  /\ lastVersion' = m.last
  /\ recent' = m.recent
  /\ delivered' = m.delivered
  /\ lastDone' = m.lastDone
  /\ abandoned' = m.abandoned
  /\ examined' = m.examined
  /\ rejected' = m.rejected
  /\ tasks' = [tasks EXCEPT ![t] =
                 [pc |-> m.pc, cancel |-> tasks[t].cancel, page |-> m.page,
                  cur |-> m.cur, idx |-> m.idx, nsync |-> m.nsync,
                  raised |-> m.raised, start |-> start, failedStart |-> failedStart,
                  atStart |-> m.atStart, got |-> m.got]]

\* Task.cancel() on a suspended task: the task's only further step is to end at
\* the await it is suspended in, so of its locals only that place (and the event
\* whose dispatch it is in) is kept
CancelRequested(tk) ==
  [IdleTask EXCEPT !.pc = tk.pc, !.cur = tk.cur, !.cancel = TRUE]

\* ------------------------------------------------------------ the monitor
InitMonitor ==
  /\ running = FALSE
  /\ task = 0
  /\ lastVersion = NoVersion
  /\ recent = <<>>
  /\ monitored = {}
  /\ asyncCallbacks = <<>>
  /\ created = 0
  /\ tasks = [t \in TaskIds |-> IdleTask]
  /\ stopWait = [t \in TaskIds |-> 0]
  /\ stopReturned = FALSE
  /\ delivered = <<>>
  /\ lastDone = NoDispatch
  /\ abandoned = <<>>
  /\ examined = NotExamined
  /\ rejected = {}

\* start(): no await between the test of _running and create_task
Start(limit) ==
  /\ stopReturned' = FALSE
  /\ IF running
     THEN UNCHANGED <<running, task, created, tasks>>
     ELSE /\ created < limit
          /\ running' = TRUE
          /\ created' = created + 1
          /\ task' = created + 1
          /\ tasks' = [tasks EXCEPT ![created + 1].pc = "init"]
  /\ UNCHANGED <<lastVersion, recent, monitored, callbacks, asyncCallbacks,
                 stopWait, delivered, lastDone, abandoned, examined, rejected>>
  /\ UNCHANGED <<engineVars, callVars>>

\* stop() up to "await self._task". Awaiting a task that has already ended does
\* not suspend: it returns, or re-raises the exception the task ended with (and
\* then "self._task = None" is not reached).
Stop ==
  /\ running' = FALSE
  /\ IF task = 0
     THEN /\ stopReturned' = TRUE
          /\ UNCHANGED <<task, tasks, stopWait>>
     ELSE IF Alive(task)
     THEN /\ stopWait[task] < MaxStops
          /\ tasks' = [tasks EXCEPT ![task] = CancelRequested(@)]
          /\ stopWait' = [stopWait EXCEPT ![task] = @ + 1]
          /\ UNCHANGED <<task, stopReturned>>
     ELSE IF tasks[task].pc = "failed"
     THEN UNCHANGED <<task, tasks, stopWait, stopReturned>>
     ELSE /\ task' = 0
          /\ stopReturned' = TRUE
          /\ UNCHANGED <<tasks, stopWait>>
  /\ UNCHANGED <<lastVersion, recent, monitored, callbacks, asyncCallbacks,
                 created, delivered, lastDone, abandoned, examined, rejected>>
  /\ UNCHANGED <<engineVars, callVars>>

\* stop() from the await on: the awaited task has ended by cancellation
StopResume(t) ==
  /\ stopWait[t] > 0
  /\ tasks[t].pc = "cancelled"
  /\ stopWait' = [stopWait EXCEPT ![t] = @ - 1]
  /\ task' = 0
  /\ stopReturned' = TRUE
  /\ UNCHANGED <<running, lastVersion, recent, monitored, callbacks, asyncCallbacks,
                 created, tasks, delivered, lastDone, abandoned, examined, rejected>>
  /\ UNCHANGED <<engineVars, callVars>>

\* Task.cancel() takes effect at the task's next step: CancelledError is thrown at
\* the await the task is suspended in (or before its first step); no handler of
\* the loop catches it (it is not an Exception), so the task ends
Cancelled(t) ==
  /\ Alive(t)
  /\ tasks[t].cancel
  /\ tasks' = [tasks EXCEPT ![t] = [IdleTask EXCEPT !.pc = "cancelled"]]
  /\ UNCHANGED <<running, task, lastVersion, recent, monitored, callbacks,
                 asyncCallbacks, created, stopWait, stopReturned, delivered, lastDone, abandoned, examined, rejected>>
  /\ UNCHANGED <<engineVars, callVars>>

\* _monitor_loop, first step: get_aptos_client() (it does not suspend), then the
\* await of get_ledger_info. clientOk = FALSE: get_aptos_client raises
LoopBegin(t, clientOk) ==
  /\ tasks[t].pc = "init"
  /\ ~tasks[t].cancel
  /\ tasks' = [tasks EXCEPT ![t] = IF clientOk THEN [@ EXCEPT !.pc = "ledger"]
                                    ELSE [IdleTask EXCEPT !.pc = "failed"]]
  /\ UNCHANGED <<running, task, lastVersion, recent, monitored, callbacks,
                 asyncCallbacks, created, stopWait, stopReturned, delivered, lastDone, abandoned, examined, rejected>>
  /\ UNCHANGED <<engineVars, callVars>>

\* "while self._running": either the next fetch is issued with start=_last_version
\* (the task suspends in it) or the loop ends
EnterLoop(t, last) ==
  tasks' = [tasks EXCEPT ![t] =
             IF running
             THEN [@ EXCEPT !.pc = "fetch", !.start = last]
             ELSE [IdleTask EXCEPT !.pc = "done"]]

\* get_ledger_info returns head (or raises: head = NoVersion), then the loop is entered
LedgerReturn(t, head) ==
  /\ tasks[t].pc = "ledger"
  /\ ~tasks[t].cancel
  /\ lastVersion' = IF head = NoVersion THEN 0 ELSE head
  /\ EnterLoop(t, lastVersion')
  /\ UNCHANGED <<running, task, recent, monitored, callbacks, asyncCallbacks,
                 created, stopWait, stopReturned, delivered, lastDone, abandoned, examined, rejected>>
  /\ UNCHANGED <<engineVars, callVars>>

\* the task after get_transactions raised: the exception is caught at line 147
\* and the loop goes on to its sleep (failedStart remembers the bound that failed)
AfterFetchError(tk) ==
  [tk EXCEPT !.pc = "sleep", !.failedStart = tk.start]

\* get_transactions raises
FetchFail(t) ==
  /\ tasks[t].pc = "fetch"
  /\ ~tasks[t].cancel
  /\ tasks' = [tasks EXCEPT ![t] = AfterFetchError(@)]
  /\ UNCHANGED <<running, task, lastVersion, recent, monitored, callbacks,
                 asyncCallbacks, created, stopWait, stopReturned, delivered, lastDone, abandoned, examined, rejected>>
  /\ UNCHANGED <<engineVars, callVars>>

\* get_transactions returns a page: it is processed up to the next suspension
FetchReturn(t, txs, sraise) ==
  /\ tasks[t].pc = "fetch"
  /\ ~tasks[t].cancel
  /\ Commit(t, ProcessFrom([StepState(t) EXCEPT !.abandoned = <<>>], txs, sraise),
            tasks[t].start, NoVersion)
  /\ UNCHANGED <<running, task, monitored, callbacks, asyncCallbacks,
                 created, stopWait, stopReturned>>
  /\ UNCHANGED <<engineVars, callVars>>

\* asyncio.sleep returns
SleepReturn(t) ==
  /\ tasks[t].pc = "sleep"
  /\ ~tasks[t].cancel
  /\ EnterLoop(t, lastVersion)
  /\ UNCHANGED <<running, task, lastVersion, recent, monitored, callbacks,
                 asyncCallbacks, created, stopWait, stopReturned, delivered, lastDone, abandoned, examined, rejected>>
  /\ UNCHANGED <<engineVars, callVars>>

\* add_callback
AddCallback(cb) ==
  /\ callbacks' = Append(callbacks, cb)
  /\ UNCHANGED <<running, task, lastVersion, recent, monitored, asyncCallbacks,
                 created, tasks, stopWait, stopReturned, delivered, lastDone, abandoned, examined, rejected>>
  /\ UNCHANGED <<engineVars, callVars>>

\* add_async_callback
AddAsyncCallback(cb) ==
  /\ asyncCallbacks' = Append(asyncCallbacks, cb)
  /\ UNCHANGED <<running, task, lastVersion, recent, monitored, callbacks,
                 created, tasks, stopWait, stopReturned, delivered, lastDone, abandoned, examined, rejected>>
  /\ UNCHANGED <<engineVars, callVars>>

\* list.remove(x): the list without the first x
RemoveFirst(q, x) ==
  LET i == CHOOSE k \in 1..Len(q) : q[k] = x /\ \A j \in 1..(k - 1) : q[j] # x
  IN SubSeq(q, 1, i - 1) \o SubSeq(q, i + 1, Len(q))

\* remove_callback
RemoveCallback(cb) ==
  /\ callbacks' = IF \E k \in 1..Len(callbacks) : callbacks[k] = cb
                  THEN RemoveFirst(callbacks, cb) ELSE callbacks
  /\ asyncCallbacks' = IF \E k \in 1..Len(asyncCallbacks) : asyncCallbacks[k] = cb
                       THEN RemoveFirst(asyncCallbacks, cb) ELSE asyncCallbacks
  /\ UNCHANGED <<running, task, lastVersion, recent, monitored,
                 created, tasks, stopWait, stopReturned, delivered, lastDone, abandoned, examined, rejected>>
  /\ UNCHANGED <<engineVars, callVars>>

\* add_monitored_address
AddMonitoredAddress(address) ==
  /\ monitored' = monitored \cup {MonitoredForm(address)}
  /\ UNCHANGED <<running, task, lastVersion, recent, callbacks, asyncCallbacks,
                 created, tasks, stopWait, stopReturned, delivered, lastDone, abandoned, examined, rejected>>
  /\ UNCHANGED <<engineVars, callVars>>

\* remove_monitored_address
RemoveMonitoredAddress(address) ==
  /\ monitored' = monitored \ {MonitoredForm(address)}
  /\ UNCHANGED <<running, task, lastVersion, recent, callbacks, asyncCallbacks,
                 created, tasks, stopWait, stopReturned, delivered, lastDone, abandoned, examined, rejected>>
  /\ UNCHANGED <<engineVars, callVars>>

\* ------------------------------------------------------ the policy engine
\* the elements of a list
Range(q) ==
  {q[i] : i \in 1..Len(q)}

\* CompliancePolicy; config is spread over addresses (config["addresses"]),
\* limit (config["max_value"] or config["max_gas"]) and contracts
Policy(name, ptype, severity, addresses, limit) ==
  [name |-> name, ptype |-> ptype, severity |-> severity, enabled |-> TRUE,
   addresses |-> addresses, limit |-> limit, contracts |-> <<>>]

\* Amounts (octas, gas units) are written <<hi, lo>> for hi * 10^6 + lo, since
\* 1000000000000 is beyond the integers of the model checker.
\* config={"max_value": 1000000000000}
DefaultMaxValue ==
  <<1000000, 0>>

\* config={"max_gas": 100000}
DefaultMaxGas ==
  <<0, 100000>>

\* a config without the key
NoLimit ==
  <<-1, 0>>

\* faulty variant: a policy added under a name already present gets a second entry
UpsertAppends(ps, p) ==
  Append(ps, p)

\* the index of the policy called name, or 0
IndexOf(ps, name) ==
  IF \E i \in 1..Len(ps) : ps[i].name = name
  THEN CHOOSE i \in 1..Len(ps) : ps[i].name = name
  ELSE 0

\* self._policies[policy.name] = policy: a dict keeps the place of a key it has
Upsert(ps, p) ==
  IF IndexOf(ps, p.name) = 0 THEN Append(ps, p)
  ELSE [ps EXCEPT ![IndexOf(ps, p.name)] = p]

\* the blocked-address cache after add_policy(p)
CacheAfterAdd(cache, p) ==
  IF p.ptype = "blocked_address"
  THEN cache \cup {Lower(a) : a \in Range(p.addresses)}
  ELSE cache

\* _load_default_policies on the empty engine
DefaultPolicies ==
  << Policy("max_transaction_value", "transaction_value", "high", <<>>, DefaultMaxValue),
     Policy("high_gas_warning", "gas_limit", "medium", <<>>, DefaultMaxGas),
     Policy("blocked_addresses", "blocked_address", "critical", <<>>, NoLimit),
     Policy("suspicious_contracts", "contract_interaction", "high", <<>>, NoLimit) >>

InitEngine ==
  /\ policies = DefaultPolicies
  /\ blocked = {}

\* add_policy
AddPolicy(p) ==
  /\ policies' = Upsert(policies, p)
  /\ blocked' = CacheAfterAdd(blocked, p)
  /\ UNCHANGED <<monitorVars, callVars>>

\* remove_policy
RemovePolicy(name) ==
  /\ policies' = SelectSeq(policies, LAMBDA q : q.name # name)
  /\ UNCHANGED blocked
  /\ UNCHANGED <<monitorVars, callVars>>

\* add_blocked_address: the cache gets the lower-cased address, the list of the
\* policy called "blocked_addresses" (if there is one) the address as given
AddBlockedAddress(address) ==
  /\ blocked' = blocked \cup {Lower(address)}
  /\ LET i == IndexOf(policies, "blocked_addresses") IN
     policies' = IF i # 0 /\ address \notin Range(policies[i].addresses)
                 THEN [policies EXCEPT ![i].addresses = Append(@, address)]
                 ELSE policies
  /\ UNCHANGED <<monitorVars, callVars>>

\* remove_blocked_address
RemoveBlockedAddress(address) ==
  /\ blocked' = blocked \ {Lower(address)}
  /\ UNCHANGED policies
  /\ UNCHANGED <<monitorVars, callVars>>

\* PUT /policies/{name}/toggle: flips enabled, then add_policy(policy)
TogglePolicy(name) ==
  /\ IndexOf(policies, name) # 0
  /\ LET q == [policies[IndexOf(policies, name)] EXCEPT !.enabled = ~@] IN
     /\ policies' = Upsert(policies, q)
     /\ blocked' = CacheAfterAdd(blocked, q)
  /\ UNCHANGED <<monitorVars, callVars>>

\* faulty variant: the ceiling itself already counts as exceeded
ReachesOrExceeds(amount, limit) ==
  /\ limit # NoLimit
  /\ \/ amount[1] > limit[1]
     \/ amount[1] = limit[1] /\ amount[2] >= limit[2]

\* value > max_value on amounts <<hi, lo>>; a missing key is float("inf")
Exceeds(amount, limit) ==
  /\ limit # NoLimit
  /\ \/ amount[1] > limit[1]
     \/ amount[1] = limit[1] /\ amount[2] > limit[2]

\* sub in s, on strings
Contains(s, sub) ==
  \E i \in 0..(Len(s) - Len(sub)) : SubSeq(s, i + 1, i + Len(sub)) = sub

\* payload is None (or an empty dict)
NoPayload ==
  <<"<none>">>

\* no receiver was given
NoReceiver ==
  <<>>

\* PolicyViolation (details: the role of a blocked address, the contract matched)
Violation(p, role, contract) ==
  [policy |-> p.name, ptype |-> p.ptype, severity |-> p.severity,
   role |-> role, contract |-> contract]

\* _check_policy: the violations of one policy, none or one
CheckPolicy(p, cache, sender, receiver, value, gas, func) ==
  CASE p.ptype = "transaction_value" ->
         IF Exceeds(value, p.limit) THEN <<Violation(p, "", <<>>)>> ELSE <<>>
    [] p.ptype = "blocked_address" ->
         IF Lower(sender) \in cache THEN <<Violation(p, "sender", <<>>)>>
         ELSE IF Lower(receiver) \in cache THEN <<Violation(p, "receiver", <<>>)>>
         ELSE <<>>
    [] p.ptype = "gas_limit" ->
         IF Exceeds(gas, p.limit) THEN <<Violation(p, "", <<>>)>> ELSE <<>>
    [] p.ptype = "contract_interaction" ->
         LET hits == {i \in 1..Len(p.contracts) :
                        func # NoPayload /\ Contains(Lower(func), Lower(p.contracts[i]))}
         IN IF hits = {} THEN <<>>
            ELSE <<Violation(p, "", p.contracts[SetMin(hits)])>>
    [] OTHER -> <<>>

\* faulty variant: disabled policies are evaluated as well
EvaluatedAlways(p) ==
  TRUE

\* "if not policy.enabled: continue"
Evaluated(p) ==
  p.enabled

\* the loop of check_transaction over self._policies.values(), from policy i on:
\* the violations collected and the number of policies evaluated
RECURSIVE CheckFrom(_, _, _, _, _, _, _, _)
CheckFrom(ps, i, cache, sender, receiver, value, gas, func) ==
  IF i > Len(ps) THEN [violations |-> <<>>, policies_checked |-> 0]
  ELSE LET rest == CheckFrom(ps, i + 1, cache, sender, receiver, value, gas, func) IN
       IF ~Evaluated(ps[i]) THEN rest
       ELSE [violations |->
               CheckPolicy(ps[i], cache, sender, receiver, value, gas, func)
                 \o rest.violations,
             policies_checked |-> rest.policies_checked + 1]

\* no check_transaction call yet
NoCheck ==
  [called |-> FALSE, sender |-> <<>>, receiver |-> <<>>, value |-> <<0, 0>>,
   gas |-> <<0, 0>>, func |-> NoPayload, registry |-> <<>>, cache |-> {},
   violations |-> <<>>, policies_checked |-> 0, passed |-> TRUE]

\* the ComplianceResult r of a check_transaction call, kept with the arguments
\* and with the registry and cache the call ran against
Checked(sender, receiver, value, gas, func, r) ==
  [called |-> TRUE, sender |-> sender, receiver |-> receiver,
   value |-> value, gas |-> gas, func |-> func,
   registry |-> policies, cache |-> blocked,
   violations |-> r.violations,
   policies_checked |-> r.policies_checked,
   passed |-> Len(r.violations) = 0]

\* check_transaction
CheckTransaction(sender, receiver, value, gas, func) ==
  /\ checked' = Checked(sender, receiver, value, gas, func,
                         CheckFrom(policies, 1, blocked, sender, receiver, value, gas, func))
  /\ UNCHANGED <<monitorVars, engineVars, scored, connections, broadcast, handled>>

\* ------------------------------------------------ Python floats (binary64)
\* The weights of the risk scorer are Python floats. A float is written
\* [m, e] for m * 2^e, with m = 0 or 2^52 <= m < 2^53; m is a natural number
\* held in limbs of 15 bits (least significant first), since 2^53 is beyond
\* the integers of the model checker. Every operation rounds its exact result
\* to the nearest float, ties to the even mantissa.
Base ==
  2^15

Limbs ==
  1..8

TopLimb ==
  Cardinality(Limbs)

\* the natural number n < 2^31 in limbs
Big(n) ==
  <<n % Base, (n \div Base) % Base, n \div (Base * Base), 0, 0, 0, 0, 0>>

\* the value of a number that fits two limbs
Small(a) ==
  a[1] + Base * a[2]

\* limbs i.. of a + b + carry
RECURSIVE AddFrom(_, _, _, _)
AddFrom(a, b, i, carry) ==
  IF i > TopLimb THEN <<>>
  ELSE <<(a[i] + b[i] + carry) % Base>>
         \o AddFrom(a, b, i + 1, (a[i] + b[i] + carry) \div Base)

BigAdd(a, b) ==
  AddFrom(a, b, 1, 0)

\* limbs i.. of a - b - borrow
RECURSIVE SubFrom(_, _, _, _)
SubFrom(a, b, i, borrow) ==
  IF i > TopLimb THEN <<>>
  ELSE <<(a[i] - b[i] - borrow + Base) % Base>>
         \o SubFrom(a, b, i + 1, IF a[i] - b[i] - borrow < 0 THEN 1 ELSE 0)

\* a - b for a >= b
BigSub(a, b) ==
  SubFrom(a, b, 1, 0)

BigLess(a, b) ==
  \E i \in Limbs : a[i] < b[i] /\ \A j \in Limbs : j > i => a[j] = b[j]

\* limbs i.. of a * n + carry
RECURSIVE MulFrom(_, _, _, _)
MulFrom(a, n, i, carry) ==
  IF i > TopLimb THEN <<>>
  ELSE <<(a[i] * n + carry) % Base>>
         \o MulFrom(a, n, i + 1, (a[i] * n + carry) \div Base)

\* a * n for n < 2^15
BigMulSmall(a, n) ==
  MulFrom(a, n, 1, 0)

BigDouble(a) ==
  BigAdd(a, a)

\* limbs i.. of a \div 2
RECURSIVE HalfFrom(_, _)
HalfFrom(a, i) ==
  IF i > TopLimb THEN <<>>
  ELSE <<(a[i] \div 2) + (IF i < TopLimb /\ a[i + 1] % 2 = 1 THEN Base \div 2 ELSE 0)>>
         \o HalfFrom(a, i + 1)

BigHalf(a) ==
  HalfFrom(a, 1)

BigOdd(a) ==
  a[1] % 2 = 1

\* limbs i..1 of a \div n, most significant limb first, for n < 2^15
RECURSIVE DivFrom(_, _, _, _)
DivFrom(a, n, i, rem) ==
  IF i = 0 THEN <<>>
  ELSE DivFrom(a, n, i - 1, (rem * Base + a[i]) % n)
         \o <<(rem * Base + a[i]) \div n>>

\* a \div n for n < 2^15
BigDivSmall(a, n) ==
  DivFrom(a, n, TopLimb, 0)

\* a * 2^k: whole limbs are moved, the other bits multiplied in
BigShl(a, k) ==
  BigMulSmall(SubSeq([i \in 1..(k \div 15) |-> 0] \o a, 1, TopLimb), 2^(k % 15))

\* a \div 2^k
BigShr(a, k) ==
  IF k \div 15 >= TopLimb THEN Big(0)
  ELSE BigDivSmall(SubSeq(a, (k \div 15) + 1, TopLimb) \o [i \in 1..(k \div 15) |-> 0],
                   2^(k % 15))

\* the number of bits of a
BitLength(a) ==
  IF a = Big(0) THEN 0
  ELSE LET top == CHOOSE i \in Limbs : a[i] # 0 /\ \A j \in Limbs : j > i => a[j] = 0
       IN 15 * (top - 1) + (CHOOSE k \in 1..15 : 2^(k - 1) <= a[top] /\ a[top] < 2^k)

MantissaBits ==
  53

Two52 ==
  BigShl(Big(1), MantissaBits - 1)

Two53 ==
  BigShl(Big(1), MantissaBits)

\* What was cut off below the last bit kept: nothing, less than half of it,
\* half of it, more than half of it
Exact == 0
BelowHalf == 1
Half == 2
AboveHalf == 3

\* halve m until it has at most 53 bits, keeping account of what is cut off
RECURSIVE Narrow(_, _, _)
Narrow(m, e, lost) ==
  IF BigLess(m, Two53) THEN [m |-> m, e |-> e, lost |-> lost]
  ELSE LET h == BigHalf(m)
           l == IF BigOdd(m) THEN (IF lost = Exact THEN Half ELSE AboveHalf)
                ELSE (IF lost = Exact THEN Exact ELSE BelowHalf)
       IN IF Len(h) = TopLimb /\ l >= Exact THEN Narrow(h, e + 1, l)
          ELSE [m |-> h, e |-> e, lost |-> l]

\* m brought to 53 bits
Widen(m, e) ==
  IF m = Big(0) THEN [m |-> m, e |-> 0]
  ELSE [m |-> BigShl(m, MantissaBits - BitLength(m)),
        e |-> e - (MantissaBits - BitLength(m))]

\* the float nearest to m * 2^e (+ what lost stands for), ties to even
Round(m, e, lost) ==
  LET n == Narrow(m, e, lost)
      up == n.lost = AboveHalf \/ (n.lost = Half /\ BigOdd(n.m))
      r == IF up THEN BigAdd(n.m, Big(1)) ELSE n.m
  IN Widen(r, n.e)

\* float(n) for an int n
FloatOfInt(n) ==
  Round(Big(n), 0, Exact)

\* n * f for an int n and a float f
FMulInt(f, n) ==
  Round(BigMulSmall(f.m, n), f.e, Exact)

\* f + g
FAdd(f, g) ==
  IF f.m = Big(0) THEN g
  ELSE IF g.m = Big(0) THEN f
  ELSE IF f.e >= g.e THEN Round(BigAdd(BigShl(f.m, f.e - g.e), g.m), g.e, Exact)
  ELSE Round(BigAdd(BigShl(g.m, g.e - f.e), f.m), f.e, Exact)

\* k more bits of the quotient of r / d, r < d
RECURSIVE DivStep(_, _, _, _)
DivStep(q, r, d, k) ==
  IF k = 0 THEN [q |-> q, r |-> r]
  ELSE LET r2 == BigDouble(r)
           hit == ~BigLess(r2, d)
           q2 == IF hit THEN BigAdd(BigDouble(q), Big(1)) ELSE BigDouble(q)
           r3 == IF hit THEN BigSub(r2, d) ELSE r2
       IN IF Len(q2) = Len(r3) THEN DivStep(q2, r3, d, k - 1)
          ELSE [q |-> q2, r |-> r3]

\* k more bits, eleven at a time
RECURSIVE DivSteps(_, _, _, _)
DivSteps(q, r, d, k) ==
  IF k <= 11 THEN DivStep(q, r, d, k)
  ELSE LET part == DivStep(q, r, d, 11) IN
       IF Len(part.q) = Len(part.r) THEN DivSteps(part.q, part.r, d, k - 11)
       ELSE part

\* f / g for g # 0: the quotient of the mantissas to two bits more than a
\* mantissa has, rounded
FDiv(f, g) ==
  IF f.m = Big(0) THEN f
  ELSE LET one == ~BigLess(f.m, g.m)
           d == DivSteps(IF one THEN Big(1) ELSE Big(0),
                         IF one THEN BigSub(f.m, g.m) ELSE f.m,
                         g.m, MantissaBits + 2)
       IN Round(d.q, f.e - g.e - (MantissaBits + 2),
                IF d.r = Big(0) THEN Exact ELSE BelowHalf)

\* int(f) for f >= 0: the fraction is cut off
IntOfFloat(f) ==
  IF f.e >= 0 THEN Small(BigShl(f.m, f.e)) ELSE Small(BigShr(f.m, 0 - f.e))

\* --------------------------------------------------------- the risk scorer
\* min(a, b) and max(a, b) of Python
MinOf(a, b) ==
  IF a <= b THEN a ELSE b

MaxOf(a, b) ==
  IF a >= b THEN a ELSE b

\* WEIGHTS: the floats the literals 0.35, 0.40 and 0.25 stand for
WeightCompliance ==
  FDiv(FloatOfInt(35), FloatOfInt(100))

WeightVulnerability ==
  FDiv(FloatOfInt(40), FloatOfInt(100))

WeightAnomaly ==
  FDiv(FloatOfInt(25), FloatOfInt(100))

\* SEVERITY_SCORES.get(severity, 0)
SeverityScore(severity) ==
  CASE severity = "info" -> 5
    [] severity = "low" -> 15
    [] severity = "medium" -> 35
    [] severity = "high" -> 65
    [] severity = "critical" -> 95
    [] OTHER -> 0

\* An argument of calculate_risk_score: None, or a result or report with its
\* violations, vulnerabilities or findings as items
NotGiven ==
  [given |-> FALSE, items |-> <<>>]

Given(items) ==
  [given |-> TRUE, items |-> items]

\* max_severity after the loop over the items, from 0
MaxSeverity(items) ==
  LET S == {SeverityScore(items[i].severity) : i \in 1..Len(items)} \cup {0}
  IN CHOOSE x \in S : \A y \in S : y <= x

\* faulty variant: every violation adds 5, without a cap
ScoreComplianceUncapped(result) ==
  IF Len(result.items) = 0 THEN 0
  ELSE MinOf(100, MaxSeverity(result.items) + Len(result.items) * 5)

\* _score_compliance
ScoreCompliance(result) ==
  IF Len(result.items) = 0 THEN 0
  ELSE MinOf(100, MaxSeverity(result.items) + MinOf(Len(result.items) * 5, 25))

\* report.critical_count, high_count, medium_count, low_count: the number of
\* vulnerabilities of the severity in the report
SeverityCount(report, severity) ==
  Cardinality({i \in 1..Len(report.items) : report.items[i].severity = severity})

\* faulty variant: the count bonus is not capped at 30
ScoreVulnerabilitiesUncapped(report) ==
  IF Len(report.items) = 0 THEN 0
  ELSE MinOf(100, MaxSeverity(report.items)
                    + SeverityCount(report, "critical") * 15
                    + SeverityCount(report, "high") * 10
                    + SeverityCount(report, "medium") * 5
                    + SeverityCount(report, "low") * 2)

\* _score_vulnerabilities
ScoreVulnerabilities(report) ==
  IF Len(report.items) = 0 THEN 0
  ELSE MinOf(100, MaxSeverity(report.items)
                    + MinOf(SeverityCount(report, "critical") * 15
                              + SeverityCount(report, "high") * 10
                              + SeverityCount(report, "medium") * 5
                              + SeverityCount(report, "low") * 2, 30))

\* int(severity_score * finding.confidence)
WeightedSeverity(finding) ==
  IntOfFloat(FMulInt(finding.confidence, SeverityScore(finding.severity)))

\* _score_anomalies
ScoreAnomalies(report) ==
  IF Len(report.items) = 0 THEN 0
  ELSE LET S == {WeightedSeverity(report.items[i]) : i \in 1..Len(report.items)} \cup {0}
           top == CHOOSE x \in S : \A y \in S : y <= x
       IN MinOf(100, top + MinOf(Len(report.items) * 5, 20))

\* faulty variant: the boundary scores fall into the level below
ScoreToLevelInclusive(score) ==
  IF score <= 10 THEN "safe"
  ELSE IF score <= 30 THEN "low"
  ELSE IF score <= 55 THEN "medium"
  ELSE IF score <= 80 THEN "high"
  ELSE "critical"

\* _score_to_level
ScoreToLevel(score) ==
  IF score < 10 THEN "safe"
  ELSE IF score < 30 THEN "low"
  ELSE IF score < 55 THEN "medium"
  ELSE IF score < 80 THEN "high"
  ELSE "critical"

RecommendPolicy == "Review and address policy violations"
RecommendCritical == "Address critical vulnerabilities immediately"
RecommendHigh == "Review and fix high-severity issues"

\* the lists of all items, one after the other
RECURSIVE Flatten(_)
Flatten(lists) ==
  IF lists = <<>> THEN <<>> ELSE Head(lists) \o Flatten(Tail(lists))

\* the recommendations as they are collected, lines 105-132
Collected(compliance, vulnerability, anomaly) ==
  (IF compliance.given /\ Len(compliance.items) > 0 THEN <<RecommendPolicy>> ELSE <<>>)
  \o (IF vulnerability.given /\ Len(vulnerability.items) > 0
      THEN (IF SeverityCount(vulnerability, "critical") > 0
            THEN <<RecommendCritical>> ELSE <<>>)
           \o (IF SeverityCount(vulnerability, "high") > 0
               THEN <<RecommendHigh>> ELSE <<>>)
      ELSE <<>>)
  \o (IF anomaly.given
      THEN Flatten([i \in 1..Len(anomaly.items) |-> anomaly.items[i].recommendations])
      ELSE <<>>)

\* faulty variant: the list is cut to 5 entries and duplicates are kept
KeepFirstFive(q) ==
  SubSeq(q, 1, MinOf(5, Len(q)))

\* list(dict.fromkeys(q)): the first occurrence of every entry, in order
RECURSIVE DedupFrom(_, _, _)
DedupFrom(q, i, acc) ==
  IF i > Len(q) THEN acc
  ELSE DedupFrom(q, i + 1, IF q[i] \in Range(acc) THEN acc ELSE Append(acc, q[i]))

\* list(dict.fromkeys(recommendations))[:5]
DedupFirstFive(q) ==
  SubSeq(DedupFrom(q, 1, <<>>), 1, MinOf(5, Len(DedupFrom(q, 1, <<>>))))

\* faulty variant: a result or report without items counts as not given
PresentIfNonEmpty(argument) ==
  argument.given /\ Len(argument.items) > 0

\* "if compliance_result:" and the like: the argument is not None
Present(argument) ==
  argument.given

\* str.upper() on the severity strings of the reports
SeverityUpper(severity) ==
  CASE severity = "info" -> "INFO"
    [] severity = "low" -> "LOW"
    [] severity = "medium" -> "MEDIUM"
    [] severity = "high" -> "HIGH"
    [] severity \in {"critical", "Critical"} -> "CRITICAL"
    [] severity = "unknown" -> "UNKNOWN"
    [] OTHER -> severity

\* the head of the line of a compliance violation, line 107
PolicyViolationHead == "Policy violation"

\* f"{head}: {text}"
FactorLine(head, text) ==
  [head |-> head, text |-> text]

\* one line per violation, vulnerability and finding, in this order
Factors(compliance, vulnerability, anomaly) ==
  (IF Present(compliance)
   THEN [i \in 1..Len(compliance.items) |->
           FactorLine(PolicyViolationHead, compliance.items[i].text)]
   ELSE <<>>)
  \o (IF Present(vulnerability)
      THEN [i \in 1..Len(vulnerability.items) |->
              FactorLine(SeverityUpper(vulnerability.items[i].severity),
                         vulnerability.items[i].text)]
      ELSE <<>>)
  \o (IF Present(anomaly)
      THEN [i \in 1..Len(anomaly.items) |->
              FactorLine(SeverityUpper(anomaly.items[i].severity),
                         anomaly.items[i].text)]
      ELSE <<>>)

\* the categories given
Categories(compliance, vulnerability, anomaly) ==
  (IF Present(compliance) THEN {"compliance"} ELSE {})
  \cup (IF Present(vulnerability) THEN {"vulnerability"} ELSE {})
  \cup (IF Present(anomaly) THEN {"anomaly"} ELSE {})

\* a call of calculate_risk_score that has not run yet
Pending(compliance, vulnerability, anomaly) ==
  [called |-> FALSE, compliance |-> compliance, vulnerability |-> vulnerability,
   anomaly |-> anomaly, score |-> 0, level |-> "safe", breakdown |-> <<>>,
   factors |-> <<>>, collected |-> <<>>, recommendations |-> <<>>]

\* no calculate_risk_score call
NoScore ==
  Pending(NotGiven, NotGiven, NotGiven)

\* "total += term" under "if argument": the sum, or the total as it was
AddIf(present, total, term) ==
  IF present THEN FAdd(total, term) ELSE total

\* total_score after lines 134-148
TotalScore(compliance, vulnerability, anomaly, compliance_score, vuln_score, anomaly_score) ==
  AddIf(Present(anomaly),
        AddIf(Present(vulnerability),
              AddIf(Present(compliance), FloatOfInt(0),
                    FMulInt(WeightCompliance, compliance_score)),
              FMulInt(WeightVulnerability, vuln_score)),
        FMulInt(WeightAnomaly, anomaly_score))

\* faulty variant: a result or report without items adds no weight
TotalWeightOfFindings(compliance, vulnerability, anomaly) ==
  AddIf(PresentIfNonEmpty(anomaly),
        AddIf(PresentIfNonEmpty(vulnerability),
              AddIf(PresentIfNonEmpty(compliance), FloatOfInt(0), WeightCompliance),
              WeightVulnerability),
        WeightAnomaly)

\* total_weight after lines 134-148
TotalWeight(compliance, vulnerability, anomaly) ==
  AddIf(Present(anomaly),
        AddIf(Present(vulnerability),
              AddIf(Present(compliance), FloatOfInt(0), WeightCompliance),
              WeightVulnerability),
        WeightAnomaly)

\* final_score, lines 151-152
FinalScore(total_score, total_weight) ==
  IF total_weight.m # Big(0)
  THEN MaxOf(0, MinOf(100, IntOfFloat(FDiv(total_score, total_weight))))
  ELSE 0

\* the RiskScore returned, kept with the arguments and with the
\* recommendations as collected
Assessed(compliance, vulnerability, anomaly, compliance_score, vuln_score, anomaly_score, final_score, collected, factors) ==
  [called |-> TRUE, compliance |-> compliance, vulnerability |-> vulnerability,
   anomaly |-> anomaly,
   score |-> final_score,
   level |-> ScoreToLevel(final_score),
   breakdown |-> [k \in Categories(compliance, vulnerability, anomaly) |->
                    CASE k = "compliance" -> compliance_score
                      [] k = "vulnerability" -> vuln_score
                      [] OTHER -> anomaly_score],
   factors |-> SubSeq(factors, 1, MinOf(10, Len(factors))),
   collected |-> collected,
   recommendations |-> DedupFirstFive(collected)]

\* calculate_risk_score from the three sub-scores
Weighted(compliance, vulnerability, anomaly, compliance_score, vuln_score, anomaly_score) ==
  Assessed(compliance, vulnerability, anomaly, compliance_score, vuln_score, anomaly_score,
           FinalScore(TotalScore(compliance, vulnerability, anomaly,
                                 compliance_score, vuln_score, anomaly_score),
                      TotalWeight(compliance, vulnerability, anomaly)),
           Collected(compliance, vulnerability, anomaly),
           Factors(compliance, vulnerability, anomaly))

\* calculate_risk_score
RiskScore(compliance, vulnerability, anomaly) ==
  Weighted(compliance, vulnerability, anomaly,
           IF Present(compliance) THEN ScoreCompliance(compliance) ELSE 0,
           IF Present(vulnerability) THEN ScoreVulnerabilities(vulnerability) ELSE 0,
           IF Present(anomaly) THEN ScoreAnomalies(anomaly) ELSE 0)

\* calculate_risk_score on the arguments drawn for this run
CalculateRiskScore ==
  /\ ~scored.called
  /\ scored' = RiskScore(scored.compliance, scored.vulnerability, scored.anomaly)
  /\ UNCHANGED <<monitorVars, engineVars, checked, connections, broadcast, handled>>

\* ------------------------------------------------- the WebSocket handler
\* the callback that websocket_endpoint registers
AlertHandler == "handle_transaction_event"

\* gas_used of an event as an amount
GasAmount(gas) ==
  <<gas \div 1000000, gas % 1000000>>

\* the ComplianceResult as the scorer reads it: severity and message of the
\* violations (the message carries the policy's name)
ComplianceOf(result) ==
  Given([i \in 1..Len(result.violations) |->
           [severity |-> result.violations[i].severity,
            text |-> result.violations[i].policy]])

\* manager.broadcast(message): one send_json per connection, in order
Broadcast(type, ev) ==
  [i \in 1..Len(connections) |-> [to |-> connections[i], type |-> type, version |-> ev.version]]

NotHandled ==
  [called |-> FALSE, version |-> 0, alert |-> FALSE]

\* handle_transaction_event from line 75 on: the alert, if the check did not
\* pass or the score is 30 or more, then the new_transaction notification
Reported(ev, result, risk) ==
  /\ checked' = result
  /\ scored' = risk
  /\ broadcast' = broadcast
                    \o (IF ~result.passed \/ risk.score >= 30
                        THEN Broadcast("transaction_alert", ev) ELSE <<>>)
                    \o Broadcast("new_transaction", ev)
  /\ handled' = [called |-> TRUE, version |-> ev.version,
                 alert |-> ~result.passed \/ risk.score >= 30]
  /\ UNCHANGED connections

\* handle_transaction_event from line 72 on
Scored(ev, result) ==
  Reported(ev, result, RiskScore(ComplianceOf(result), NotGiven, NotGiven))

\* handle_transaction_event: check_transaction is called with the sender, the
\* gas and the payload of the event (the events of the model carry none), so
\* with receiver None and value 0
HandleTransactionEvent(ev) ==
  Scored(ev, Checked(ev.sender, NoReceiver, <<0, 0>>, GasAmount(ev.gas), NoPayload,
                     CheckFrom(policies, 1, blocked, ev.sender, NoReceiver, <<0, 0>>,
                               GasAmount(ev.gas), NoPayload)))

\* "await callback(event)" ends, normally or (raised) with an Exception; what
\* handle_transaction_event does is done when it ends
AsyncReturn(t, raised, sraise) ==
  /\ tasks[t].pc = "cb"
  /\ ~tasks[t].cancel
  /\ LET m == StepState(t)
         done == [version |-> m.cur.version, nsync |-> m.nsync, nasync |-> m.idx,
                  rsync |-> m.nsync, rasync |-> Len(asyncCallbacks),
                  raised |-> m.raised \/ raised, dropped |-> 0,
                  atStart |-> m.atStart, atEnd |-> asyncCallbacks, got |-> m.got]
     IN
     IF raised /\ CallbackErrorEscapes(raised)
     THEN Commit(t, ToSleep([m EXCEPT !.lastDone = [done EXCEPT !.dropped = Len(m.page)]]),
                 tasks[t].start, tasks[t].failedStart)
     ELSE IF m.idx < Len(asyncCallbacks)
     THEN Commit(t, [m EXCEPT !.idx = @ + 1, !.raised = @ \/ raised,
                               !.got = Append(@, asyncCallbacks[m.idx + 1])],
                 tasks[t].start, tasks[t].failedStart)
     ELSE Commit(t, ProcessFrom([m EXCEPT !.lastDone = done], m.page, sraise),
                 tasks[t].start, tasks[t].failedStart)
  /\ UNCHANGED <<running, task, monitored, callbacks, asyncCallbacks,
                 created, stopWait, stopReturned>>
  /\ UNCHANGED engineVars
  /\ IF tasks[t].got[Len(tasks[t].got)] = AlertHandler /\ ~raised
     THEN HandleTransactionEvent(tasks[t].cur)
     ELSE UNCHANGED callVars

\* websocket_endpoint up to its receive loop: the connection is accepted and
\* kept, and handle_transaction_event is registered
Connect(c) ==
  /\ connections' = Append(connections, c)
  /\ asyncCallbacks' = Append(asyncCallbacks, AlertHandler)
  /\ UNCHANGED <<running, task, lastVersion, recent, monitored, callbacks,
                 created, tasks, stopWait, stopReturned, delivered, lastDone, abandoned, examined, rejected>>
  /\ UNCHANGED <<engineVars, checked, scored, broadcast, handled>>

\* websocket_endpoint on WebSocketDisconnect: manager.disconnect(websocket)
Disconnect(c) ==
  /\ \E k \in 1..Len(connections) : connections[k] = c
  /\ connections' = RemoveFirst(connections, c)
  /\ UNCHANGED <<monitorVars, engineVars, checked, scored, broadcast, handled>>

InitCalls ==
  /\ checked = NoCheck
  /\ scored = NoScore
  /\ connections = <<>>
  /\ broadcast = <<>>
  /\ handled = NotHandled

\* ------------------------------------------------- inputs of the monitor runs
DigitChars ==
  <<"0", "1", "2", "3", "4", "5", "6", "7", "8", "9">>

\* the decimal string the RPC sends for a version
RECURSIVE VersionString(_)
VersionString(v) ==
  IF v < 10 THEN <<DigitChars[v + 1]>>
  ELSE Append(VersionString(v \div 10), DigitChars[(v % 10) + 1])

AddrAB == <<"0", "x", "a", "b">>
AddrCD == <<"0", "x", "c", "d">>

GoodTx(v, s) ==
  [version |-> VersionString(v), hash |-> <<"h">>, sender |-> s, gas |-> <<"7">>]

\* ledger heads the RPC may report; NoVersion: get_ledger_info raises
Heads ==
  (0..(MaxVersion - 1)) \cup {NoVersion}

\* --------------------------------------- Spec: start, stop and the loop tasks
\* One synchronous callback is registered; the RPC returns pages of at most one
\* well-formed record.
LifePages ==
  {<<>>} \cup {<<GoodTx(v, AddrAB)>> : v \in 1..MaxVersion}

Init ==
  /\ InitMonitor
  /\ InitEngine
  /\ InitCalls
  /\ callbacks = <<"s">>

Next ==
  \/ Start(MaxTasks)
  \/ Stop
  \/ \E t \in TaskIds : StopResume(t)
  \/ \E t \in TaskIds : Cancelled(t)
  \/ \E t \in TaskIds, ok \in BOOLEAN : LoopBegin(t, ok)
  \/ \E t \in TaskIds, h \in Heads : LedgerReturn(t, h)
  \/ \E t \in TaskIds : FetchFail(t)
  \/ \E t \in TaskIds, txs \in LifePages :
       Len(delivered) + Len(txs) <= MaxDeliver /\ FetchReturn(t, txs, {})
  \/ \E t \in TaskIds : SleepReturn(t)

Spec ==
  Init /\ [][Next]_vars

\* the loops that are alive and have not been asked to end
LiveLoops ==
  {t \in TaskIds : Alive(t) /\ ~tasks[t].cancel}

\* C1: over the monitor's whole lifetime (restarts included) the versions of the
\* events handed to the callbacks are strictly increasing, so none comes twice
C1_DeliveredStrictlyIncreasing ==
  \A i, j \in 1..Len(delivered) :
    i < j => delivered[i].version < delivered[j].version

\* C5: at any time at most one polling loop is alive (not counting a loop that
\* stop() has already cancelled and that only waits to end)
C5_AtMostOneLoop ==
  Cardinality(LiveLoops) <= 1

\* C6: once a stop() has returned, and until the next start(), no step changes
\* the last-seen version, delivers an event or issues a fetch
C6_NoPollAfterStop ==
  [][(stopReturned /\ ~running) =>
       /\ lastVersion' = lastVersion
       /\ delivered' = delivered
       /\ \A t \in TaskIds : tasks'[t].pc = "fetch" => tasks[t].pc = "fetch"]_vars

\* C10: is_running is never true while no polling loop is alive
C10_RunningHasLoop ==
  running => \E t \in TaskIds : Alive(t)

\* ------------------------------- SpecPoll: pages, malformed records, callbacks
\* well-formed records, records whose gas_used or version is not a number, and
\* records without a hash
PollRecords ==
  {GoodTx(v, AddrAB) : v \in 1..MaxVersion}
    \cup {[GoodTx(v, AddrAB) EXCEPT !.gas = <<"x">>] : v \in 1..MaxVersion}
    \cup {[GoodTx(v, AddrAB) EXCEPT !.hash = Missing] : v \in 1..MaxVersion}
    \cup {[GoodTx(1, AddrAB) EXCEPT !.version = <<"x">>]}

\* pages in any order, with repeated and overlapping versions
PollPages ==
  UNION {[1..n -> PollRecords] : n \in 0..PollPage}

InitPoll ==
  /\ InitMonitor
  /\ InitEngine
  /\ InitCalls
  /\ callbacks = <<>>

NextPoll ==
  \/ Start(PollTasks)
  \/ Stop
  \/ \E t \in TaskIds : StopResume(t)
  \/ \E t \in TaskIds : Cancelled(t)
  \/ \E t \in TaskIds, ok \in BOOLEAN : LoopBegin(t, ok)
  \/ \E t \in TaskIds, h \in Heads : LedgerReturn(t, h)
  \/ \E t \in TaskIds : FetchFail(t)
  \/ \E t \in TaskIds, txs \in PollPages, sr \in SUBSET (1..MaxSync) :
       Len(delivered) + Len(txs) <= PollDeliver /\ FetchReturn(t, txs, sr)
  \/ \E t \in TaskIds : SleepReturn(t)
  \/ \E t \in TaskIds, r \in BOOLEAN, sr \in SUBSET (1..MaxSync) : AsyncReturn(t, r, sr)
  \/ Len(callbacks) < MaxSync /\ AddCallback("s")
  \/ Len(asyncCallbacks) < MaxAsync /\ AddAsyncCallback("h")

SpecPoll ==
  InitPoll /\ [][NextPoll]_vars

C8_FetchFailureKeepsState ==
  [][\A t \in TaskIds :
       /\ (tasks[t].pc = "fetch" /\ tasks'[t].pc # "fetch"
             /\ tasks'[t].failedStart # NoVersion)
            => /\ tasks'[t].pc = "sleep"
               /\ lastVersion' = lastVersion
               /\ recent' = recent
               /\ delivered' = delivered
       /\ (tasks[t].pc = "sleep" /\ tasks[t].failedStart # NoVersion
             /\ tasks'[t].pc = "fetch")
            => tasks'[t].start = tasks[t].failedStart]_vars

WellFormed(tx) ==
  ParseTransaction(tx) # NoEvent /\ tx.hash # Missing

\* C9: no record without a hash is ever delivered, and no well-formed record with
\* a newer version is left behind because of a malformed record before it
C9_MalformedDroppedAlone ==
  /\ \A i \in 1..Len(delivered) : delivered[i].hash # <<>>
  /\ \A i \in 1..Len(abandoned) :
       ~(WellFormed(abandoned[i]) /\ IntOf(abandoned[i].version) > OrZero(lastVersion))

\* ------------------------------------- SpecRing: one loop filling the ring buffer
\* The RPC answers a fetch from start with the records start, start+1, ...
ContiguousPage(start, n) ==
  [i \in 1..n |-> GoodTx(start + i - 1, AddrAB)]

InitRing ==
  /\ InitMonitor
  /\ InitEngine
  /\ InitCalls
  /\ callbacks = <<"s">>

NextRing ==
  \/ Start(1)
  \/ \E t \in TaskIds : LoopBegin(t, TRUE)
  \/ \E t \in TaskIds, h \in {0, 1, NoVersion} : LedgerReturn(t, h)
  \/ \E t \in TaskIds : FetchFail(t)
  \/ \E t \in TaskIds, n \in 1..RingPage :
       /\ tasks[t].start + n - 1 <= RingMaxVersion
       /\ FetchReturn(t, ContiguousPage(tasks[t].start, n), {})
  \/ \E t \in TaskIds : SleepReturn(t)

SpecRing ==
  InitRing /\ [][NextRing]_vars

Min(a, b) ==
  IF a <= b THEN a ELSE b

\* C2: the ring buffer holds at most 100 events, and they are the last
\* min(n, 100) of the n events accepted so far, in the order of their acceptance
C2_RingHoldsLatest ==
  /\ Len(recent) <= 100
  /\ Len(recent) = Min(Len(delivered), 100)
  /\ recent = SubSeq(delivered, Len(delivered) - Len(recent) + 1, Len(delivered))

\* more than 100 events were accepted: the oldest ones have been evicted
C2_Witness ==
  /\ Len(delivered) > 100
  /\ Len(recent) = 100
  /\ recent[1] # delivered[1]

\* ---------------- SpecFilter: the address allow-list and senders in any spelling
FilterAddresses ==
  {<<"0", "x", "A", "B">>, <<"a", "b">>, AddrCD}

FilterSenders ==
  {AddrAB, <<"0", "x", "A", "B">>, <<"a", "b">>, <<"0", "x", "a", "b", "1">>,
   <<"0", "x", "c", "e">>}

InitFilter ==
  /\ InitMonitor
  /\ InitEngine
  /\ InitCalls
  /\ callbacks = <<"s">>

NextFilter ==
  \/ Start(1)
  \/ \E t \in TaskIds : LoopBegin(t, TRUE)
  \/ \E t \in TaskIds : LedgerReturn(t, 0)
  \/ \E t \in TaskIds, s \in FilterSenders :
       /\ tasks[t].start < FilterMaxVersion
       /\ FetchReturn(t, <<GoodTx(tasks[t].start + 1, s)>>, {})
  \/ \E t \in TaskIds : SleepReturn(t)
  \/ \E a \in FilterAddresses : AddMonitoredAddress(a)
  \/ \E a \in FilterAddresses : RemoveMonitoredAddress(a)

SpecFilter ==
  InitFilter /\ [][NextFilter]_vars

\* lower-cased and 0x-prefixed
NormalizedAddress(a) ==
  Lower(IF Len(a) >= 2 /\ Lower(SubSeq(a, 1, 2)) = <<"0", "x">>
        THEN a ELSE <<"0", "x">> \o a)

\* C3: an event is accepted iff the allow-list is empty or the normalized sender
\* (lower-cased and 0x-prefixed) is a member of it
C3_AcceptedIffNormalizedMember ==
  examined.called =>
    (examined.accepted <=>
       (examined.addrs = {} \/ NormalizedAddress(examined.sender) \in examined.addrs))

\* ------------------------------------------- SpecPolicy: the policy registry
AddrDead == <<"0", "x", "D", "E", "A", "D">>
AddrBeef == <<"0", "x", "b", "e", "e", "f">>

\* policies a caller may add: a second blocked-address policy, the built-in one
\* with another list, and a policy of another type under either name
PolicyInputs ==
  {Policy(n, ty, "critical", as, NoLimit) :
     n \in {"blocked_addresses", "deny"},
     ty \in {"blocked_address", "custom"},
     as \in {<<>>, <<AddrDead>>, <<AddrBeef>>}}

InitPolicy ==
  /\ InitMonitor
  /\ callbacks = <<>>
  /\ InitEngine
  /\ InitCalls

NextPolicy ==
  \/ \E p \in PolicyInputs : AddPolicy(p)
  \/ \E n \in {"blocked_addresses", "deny", "high_gas_warning"} : RemovePolicy(n)
  \/ \E a \in {AddrDead, Lower(AddrDead), AddrBeef} :
       /\ \A i \in 1..Len(policies) : Len(policies[i].addresses) <= MaxListed
       /\ AddBlockedAddress(a)
  \/ \E a \in {AddrDead, AddrBeef} : RemoveBlockedAddress(a)
  \/ \E n \in {"blocked_addresses", "deny"} : TogglePolicy(n)

SpecPolicy ==
  InitPolicy /\ [][NextPolicy]_vars

\* the lower-cased union of the lists of the blocked-address policies registered
ConfiguredBlocked ==
  UNION {{Lower(a) : a \in Range(policies[i].addresses)} :
           i \in {k \in 1..Len(policies) : policies[k].ptype = "blocked_address"}}

\* C4: the blocked-address cache is the lower-cased union of the address lists
\* of the blocked-address policies currently registered
C4_CacheMatchesPolicies ==
  blocked = ConfiguredBlocked

\* ------------------------------------------- SpecCheck: check_transaction
\* check_transaction reads the registry and the cache and changes neither, so
\* a behaviour edits the registry and then makes one call, with any arguments.
AddrDeadBare == <<"d", "e", "a", "d">>
FuncTransfer == <<"0", "x", "1", ":", ":", "m", ":", ":", "f">>
ContractShort == <<"0", "x", "1">>
ContractLong == <<"0", "X", "1", ":", ":", "M">>

\* policies a caller may add: a second value ceiling, the built-in ceiling under
\* another severity and without its key, a second blocked-address policy, and
\* the contract policy with two contracts that both occur in FuncTransfer
CheckPolicyInputs ==
  { Policy("cap", "transaction_value", "low", <<>>, <<0, 5>>),
    Policy("max_transaction_value", "transaction_value", "medium", <<>>, NoLimit),
    Policy("deny", "blocked_address", "high", <<AddrBeef>>, NoLimit),
    [Policy("suspicious_contracts", "contract_interaction", "high", <<>>, NoLimit)
       EXCEPT !.contracts = <<ContractShort, ContractLong>>] }

CheckSenders == {AddrDead, Lower(AddrDead), AddrDeadBare, AddrAB}
CheckReceivers == {NoReceiver, AddrDead, AddrBeef}
CheckValues == {<<0, 0>>, DefaultMaxValue, <<1000000, 1>>, <<2000000, 0>>}
CheckGas == {<<0, 0>>, <<0, 100001>>}
CheckFuncs == {NoPayload, FuncTransfer}

InitCheck ==
  /\ InitMonitor
  /\ callbacks = <<>>
  /\ InitEngine
  /\ InitCalls

NextCheck ==
  \/ /\ ~checked.called
     /\ \/ \E p \in CheckPolicyInputs : AddPolicy(p)
        \/ \E n \in {"max_transaction_value", "cap"} : RemovePolicy(n)
        \/ AddBlockedAddress(AddrDead)
        \/ RemoveBlockedAddress(AddrDead)
        \/ \E n \in {"max_transaction_value", "blocked_addresses", "suspicious_contracts"} :
             TogglePolicy(n)
  \/ /\ ~checked.called
     /\ \E sd \in CheckSenders, rc \in CheckReceivers, v \in CheckValues,
           g \in CheckGas, f \in CheckFuncs : CheckTransaction(sd, rc, v, g, f)

SpecCheck ==
  InitCheck /\ [][NextCheck]_vars

\* the policies of the registry the last call ran against that were enabled
EnabledAtCall ==
  {i \in 1..Len(checked.registry) : checked.registry[i].enabled}

\* the violations of the last call that name the policy p
ViolationsOf(p) ==
  {k \in 1..Len(checked.violations) : checked.violations[k].policy = p.name}

\* a > b on amounts
AmountGreater(a, b) ==
  a[1] > b[1] \/ (a[1] = b[1] /\ a[2] > b[2])

\* C11: every enabled transaction-value policy with a ceiling is violated iff the
\* value is above the ceiling; a fresh engine given 2,000,000,000,000 by a sender
\* that is not blocked, gas 0 and no payload, returns one violation, of severity
\* high, and passed = False
C11_ValueCeiling ==
  checked.called =>
    /\ \A i \in EnabledAtCall :
         LET p == checked.registry[i] IN
         (p.ptype = "transaction_value" /\ p.limit # NoLimit) =>
           (ViolationsOf(p) # {} <=> AmountGreater(checked.value, p.limit))
    /\ ( /\ checked.registry = DefaultPolicies
         /\ checked.cache = {}
         /\ checked.value = <<2000000, 0>>
         /\ checked.gas = <<0, 0>>
         /\ checked.func = NoPayload )
       => /\ Len(checked.violations) = 1
          /\ checked.violations[1].severity = "high"
          /\ checked.violations[1].policy = "max_transaction_value"
          /\ ~checked.passed

\* a fresh engine was given 2,000,000,000,000, and another call a value equal to
\* the ceiling
C11_Witness ==
  /\ checked.called
  /\ checked.registry = DefaultPolicies
  /\ checked.value = <<2000000, 0>>
  /\ Len(checked.violations) = 1
  /\ ~checked.passed

\* the address given, or none
GivenNormalized(a) ==
  IF a = NoReceiver THEN {} ELSE {NormalizedAddress(a)}

\* C12: an enabled blocked-address policy is violated iff the normalized sender or
\* the normalized receiver is in the cache, by exactly one violation, whose role
\* is sender whenever the sender is in the cache
C12_BlockedAddressMatch ==
  checked.called =>
    \A i \in EnabledAtCall :
      LET p == checked.registry[i]
          senderHit == GivenNormalized(checked.sender) \cap checked.cache # {}
          receiverHit == GivenNormalized(checked.receiver) \cap checked.cache # {}
      IN p.ptype = "blocked_address" =>
           /\ ViolationsOf(p) # {} <=> (senderHit \/ receiverHit)
           /\ Cardinality(ViolationsOf(p)) <= 1
           /\ senderHit => \A k \in ViolationsOf(p) : checked.violations[k].role = "sender"

\* C13: policies_checked is the number of policies enabled at the call, and no
\* violation names a policy that was disabled
C13_OnlyEnabledCounted ==
  checked.called =>
    /\ checked.policies_checked = Cardinality(EnabledAtCall)
    /\ \A k \in 1..Len(checked.violations) :
         \E i \in EnabledAtCall : checked.registry[i].name = checked.violations[k].policy

\* a call with 2,000,000,000,000 while the built-in ceiling was disabled
C13_Witness ==
  /\ checked.called
  /\ checked.value = <<2000000, 0>>
  /\ \E i \in 1..Len(checked.registry) :
       /\ checked.registry[i].name = "max_transaction_value"
       /\ checked.registry[i].limit = DefaultMaxValue
       /\ ~checked.registry[i].enabled
  /\ checked.policies_checked < Len(checked.registry)
  /\ checked.policies_checked >= 1

\* C14: a policy name has one entry in the registry and at most one violation in
\* a result, the violations follow the order of the registry, and passed says
\* that there is no violation
C14_OneViolationInOrder ==
  /\ \A i, j \in 1..Len(policies) : policies[i].name = policies[j].name => i = j
  /\ checked.called =>
       /\ \A k, l \in 1..Len(checked.violations) :
            k < l => IndexOf(checked.registry, checked.violations[k].policy)
                       < IndexOf(checked.registry, checked.violations[l].policy)
       /\ checked.passed <=> (Len(checked.violations) = 0)

\* a call that met two contracts of one policy and a blocked sender and receiver,
\* on a registry where the contract policy had been added again under its name
C14_Witness ==
  /\ checked.called
  /\ checked.func = FuncTransfer
  /\ checked.sender = Lower(AddrDead)
  /\ checked.receiver = AddrDead
  /\ checked.cache = {Lower(AddrDead)}
  /\ Len(checked.violations) >= 3
  /\ \E i \in 1..Len(checked.registry) :
       /\ checked.registry[i].name = "suspicious_contracts"
       /\ Len(checked.registry[i].contracts) = 2
       /\ i < Len(checked.registry)
       /\ Cardinality(ViolationsOf(checked.registry[i])) = 1

\* ---------------------------------------- SpecScore: calculate_risk_score
\* calculate_risk_score is a pure function: a run draws its three arguments and
\* makes the call.
MaxViolations == 6

Severities ==
  {"info", "low", "medium", "high", "critical"}

\* a violation or a vulnerability of the severity
Item(severity) ==
  [severity |-> severity, text |-> "t"]

\* the message of the i-th violation
Messages ==
  <<"m1", "m2", "m3", "m4", "m5", "m6", "m7", "m8">>

\* n violations with their own messages, all info but the one in the middle
ViolationList(severity, n) ==
  [i \in 1..n |-> [Item(IF i = (n \div 2) + 1 THEN severity ELSE "info")
                     EXCEPT !.text = Messages[i]]]

ComplianceInputs ==
  {NotGiven, Given(<<>>)}
  \cup {Given(ViolationList(sv, n)) : sv \in Severities, n \in 1..MaxViolations}

VulnerabilityInputs ==
  {NotGiven, Given(<<>>),
   Given(<<Item("critical"), Item("low"), Item("low")>>),
   Given(<<Item("low"), Item("high"), Item("low"), Item("low")>>),
   Given(<<Item("high"), Item("high"), Item("high"), Item("high")>>),
   Given(<<Item("medium")>>),
   Given(<<Item("low")>>),
   Given(<<Item("info"), Item("info")>>),
   Given(<<Item("unknown")>>),
   Given(<<Item("medium"), Item("critical"), Item("high")>>)}

\* a finding; the confidence is tenths / 10
Finding(severity, tenths, recommendations) ==
  [severity |-> severity, text |-> "t",
   confidence |-> FDiv(FloatOfInt(tenths), FloatOfInt(10)),
   recommendations |-> recommendations]

AnomalyInputs ==
  {NotGiven, Given(<<>>),
   Given(<<Finding("low", 10, <<>>)>>),
   Given(<<Finding("medium", 8, <<"r1", "r1", RecommendPolicy>>)>>),
   Given(<<Finding("high", 7, <<"r1", "r2", "r3">>),
           Finding("critical", 3, <<"r2", "r4", "r5", "r6", RecommendHigh>>)>>),
   Given(<<Finding("Critical", 10, <<"r1", "r2", "r3", "r4", "r5", "r6">>)>>),
   Given(<<Finding("critical", 10, <<RecommendCritical>>),
           Finding("info", 5, <<>>), Finding("low", 0, <<"r1">>)>>)}

InitScore ==
  /\ InitMonitor
  /\ callbacks = <<>>
  /\ InitEngine
  /\ checked = NoCheck
  /\ connections = <<>>
  /\ broadcast = <<>>
  /\ handled = NotHandled
  /\ scored \in {Pending(c, v, a) : c \in ComplianceInputs,
                                    v \in VulnerabilityInputs, a \in AnomalyInputs}

NextScore ==
  CalculateRiskScore

SpecScore ==
  InitScore /\ [][NextScore]_vars

\* C15: the score is an integer of 0..100 and the level is the one of the score:
\* below 10 safe, 10..29 low, 30..54 medium, 55..79 high, from 80 critical
C15_ScoreRangeAndLevel ==
  scored.called =>
    /\ scored.score \in 0..100
    /\ scored.level = CASE scored.score \in 0..9 -> "safe"
                        [] scored.score \in 10..29 -> "low"
                        [] scored.score \in 30..54 -> "medium"
                        [] scored.score \in 55..79 -> "high"
                        [] OTHER -> "critical"

\* a call with all three arguments that scored 79, the last score of level high
C15_Witness ==
  /\ scored.called
  /\ scored.compliance.given /\ scored.vulnerability.given /\ scored.anomaly.given
  /\ scored.score = 79
  /\ scored.level = "high"

\* the weight of a category, in hundredths
Hundredths(category) ==
  CASE category = "compliance" -> 35
    [] category = "vulnerability" -> 40
    [] OTHER -> 25

\* the sum of f[k] over the keys k of f
RECURSIVE SumOver(_, _)
SumOver(f, keys) ==
  IF keys = {} THEN 0
  ELSE LET k == CHOOSE x \in keys : TRUE IN f[k] + SumOver(f, keys \ {k})

\* C16: the score is the weighted mean of the sub-scores of the categories
\* given, rounded to the nearest integer (0 when none is given); with one
\* category it is the sub-score of that category
C16_WeightedMeanRounded ==
  scored.called =>
    LET given == DOMAIN scored.breakdown
        num == SumOver([k \in given |-> Hundredths(k) * scored.breakdown[k]], given)
        den == SumOver([k \in given |-> Hundredths(k)], given)
    IN /\ given = {} => scored.score = 0
       /\ given # {} => scored.score = (2 * num + den) \div (2 * den)
       /\ \A k \in given : given = {k} => scored.score = scored.breakdown[k]

\* C17: the vulnerability sub-score is 0 for an empty report, else
\* min(100, highest severity score + min(15 critical + 10 high + 5 medium
\* + 2 low, 30)); one critical and two low vulnerabilities alone give
\* sub-score 100, score 100 and level critical
C17_VulnerabilitySubscore ==
  (scored.called /\ scored.vulnerability.given) =>
    LET items == scored.vulnerability.items
        count(sv) == Cardinality({i \in 1..Len(items) : items[i].severity = sv})
        bonus == 15 * count("critical") + 10 * count("high")
                   + 5 * count("medium") + 2 * count("low")
        top == MaxSeverity(items)
        capped == IF bonus < 30 THEN bonus ELSE 30
    IN /\ scored.breakdown["vulnerability"]
            = IF Len(items) = 0 THEN 0
              ELSE IF top + capped < 100 THEN top + capped ELSE 100
       /\ ( /\ ~scored.compliance.given /\ ~scored.anomaly.given
            /\ Len(items) = 3
            /\ count("critical") = 1 /\ count("low") = 2 )
          => /\ scored.breakdown["vulnerability"] = 100
             /\ scored.score = 100
             /\ scored.level = "critical"

\* the report with one critical and two low vulnerabilities was scored alone
C17_Witness ==
  /\ scored.called
  /\ scored.vulnerability = Given(<<Item("critical"), Item("low"), Item("low")>>)
  /\ ~scored.compliance.given
  /\ ~scored.anomaly.given
  /\ scored.score = 100

\* C18: the compliance sub-score is 0 without violations, else
\* min(100, s + min(5 n, 25)) for n violations of highest severity score s,
\* under the table info 5, low 15, medium 35, high 65, critical 95
C18_ComplianceSubscore ==
  (scored.called /\ scored.compliance.given) =>
    LET items == scored.compliance.items
        n == Len(items)
        has(sv) == \E i \in 1..n : items[i].severity = sv
        top == IF has("critical") THEN 95
               ELSE IF has("high") THEN 65
               ELSE IF has("medium") THEN 35
               ELSE IF has("low") THEN 15
               ELSE IF has("info") THEN 5 ELSE 0
        bonus == IF 5 * n < 25 THEN 5 * n ELSE 25
    IN scored.breakdown["compliance"]
         = IF n = 0 THEN 0 ELSE IF top + bonus < 100 THEN top + bonus ELSE 100

\* six violations, the highest of severity high, scored 65 + 25
C18_Witness ==
  /\ scored.called
  /\ scored.compliance.given
  /\ Len(scored.compliance.items) = 6
  /\ \E i \in 1..6 : scored.compliance.items[i].severity = "high"
  /\ scored.breakdown["compliance"] = 90

\* the categories whose argument was supplied
Supplied ==
  (IF scored.compliance.given THEN {"compliance"} ELSE {})
  \cup (IF scored.vulnerability.given THEN {"vulnerability"} ELSE {})
  \cup (IF scored.anomaly.given THEN {"anomaly"} ELSE {})

\* C19: the breakdown has a key for exactly the categories supplied; without any
\* argument the score is 0, the level safe, and breakdown, factors and
\* recommendations are empty
C19_BreakdownOfSupplied ==
  scored.called =>
    /\ DOMAIN scored.breakdown = Supplied
    /\ Supplied = {} => /\ scored.score = 0
                        /\ scored.level = "safe"
                        /\ Len(scored.factors) = 0
                        /\ Len(scored.recommendations) = 0

\* the call without arguments was made, and so was one with empty reports
C19_Witness ==
  /\ scored.called
  /\ Supplied = {}
  /\ scored.score = 0

\* the places of the collected recommendations where a string occurs first
FirstOccurrences ==
  {i \in 1..Len(scored.collected) :
     \A j \in 1..(i - 1) : scored.collected[j] # scored.collected[i]}

\* C20: the recommendations are the first occurrences of the collected strings,
\* in their order, cut to five: at most 5 entries and no string twice
C20_RecommendationsDeduplicated ==
  scored.called =>
    LET recs == scored.recommendations IN
    /\ Len(recs) <= 5
    /\ \A i, j \in 1..Len(recs) : recs[i] = recs[j] => i = j
    /\ Len(recs) = IF Cardinality(FirstOccurrences) < 5
                   THEN Cardinality(FirstOccurrences) ELSE 5
    /\ \A k \in 1..Len(recs) :
         \E i \in FirstOccurrences :
           /\ scored.collected[i] = recs[k]
           /\ Cardinality({j \in FirstOccurrences : j < i}) = k - 1

\* the vulnerability report and a finding gave the same string, and more than
\* five different strings were collected
C20_Witness ==
  /\ scored.called
  /\ Len(scored.recommendations) = 5
  /\ Cardinality(FirstOccurrences) > 5
  /\ scored.collected[1] = RecommendHigh
  /\ \E i \in 2..Len(scored.collected) : scored.collected[i] = RecommendHigh

\* the line the claim gives for an item of a result or report
ClaimedLine(item) ==
  [head |-> SeverityUpper(item.severity), text |-> item.text]

\* the lines the claim gives for the items of an argument
ClaimedLines(argument) ==
  [i \in 1..Len(argument.items) |-> ClaimedLine(argument.items[i])]

\* C21: the factors are the first 10 of the lines of the compliance
\* violations, then the vulnerabilities, then the findings, each in source
\* order, and every line is "<SEVERITY>: <title-or-message>" with the
\* upper-cased severity of its item.
C21_FactorLines ==
  scored.called =>
    LET all == ClaimedLines(scored.compliance) \o ClaimedLines(scored.vulnerability)
                 \o ClaimedLines(scored.anomaly)
    IN scored.factors = SubSeq(all, 1, MinOf(10, Len(all)))

\* ------------------------- SpecAddress: addresses in any spelling, both stores
\* one address in five spellings, and a second address
AddressSpellings ==
  {AddrAB, <<"0", "x", "A", "B">>, <<"a", "b">>, <<"A", "B">>,
   <<"0", "X", "A", "B">>, AddrCD}

InitAddress ==
  /\ InitMonitor
  /\ callbacks = <<>>
  /\ InitEngine
  /\ InitCalls

NextAddress ==
  \/ \E a \in AddressSpellings : AddMonitoredAddress(a)
  \/ \E a \in AddressSpellings : RemoveMonitoredAddress(a)
  \/ \E a \in AddressSpellings :
       AddPolicy(Policy("deny", "blocked_address", "critical", <<a>>, NoLimit))
  \/ \E a \in AddressSpellings :
       /\ \A i \in 1..Len(policies) : Len(policies[i].addresses) <= MaxListed
       /\ AddBlockedAddress(a)
  \/ \E a \in AddressSpellings : RemoveBlockedAddress(a)

SpecAddress ==
  InitAddress /\ [][NextAddress]_vars

\* C22: every element of the allow-list and of the blocked-address set is
\* lower-case and 0x-prefixed, and is the one element that all spellings of an
\* address given stand for (its normalized form).
C22_StoredNormalized ==
  \A a \in monitored \cup blocked :
    /\ a = Lower(a)
    /\ StartsWith0x(a)
    /\ a \in {NormalizedAddress(g) : g \in AddressSpellings}

\* C23: a loop never ends in the middle of the dispatch of an event: stop()
\* does not interrupt the asynchronous callback in progress, so an event whose
\* version last-seen was advanced to, and that is in the ring buffer, reaches
\* every registered callback before the loop terminates; and once a stop() has
\* returned, a further stop() finds no task to cancel.
C23_StopAwaitsIteration ==
  [][/\ \A t \in TaskIds : tasks[t].pc = "cb" => tasks'[t].pc # "cancelled"
     /\ (stopReturned /\ ~running) => task = 0]_vars

\* ------------- SpecDispatch: one loop, callbacks added and removed at any time
\* the asynchronous callbacks, each registered at most once at a time
DispatchCallbacks ==
  {"a", "b"}

\* a page of one record and a page of two
DispatchPages ==
  {<<GoodTx(1, AddrAB)>>, <<GoodTx(1, AddrAB), GoodTx(2, AddrAB)>>}

InitDispatch ==
  /\ InitMonitor
  /\ callbacks = <<"s">>
  /\ InitEngine
  /\ InitCalls

NextDispatch ==
  \/ Start(1)
  \/ \E t \in TaskIds : LoopBegin(t, TRUE)
  \/ \E t \in TaskIds : LedgerReturn(t, 0)
  \/ \E t \in TaskIds, txs \in DispatchPages : FetchReturn(t, txs, {})
  \/ \E t \in TaskIds : SleepReturn(t)
  \/ \E t \in TaskIds : AsyncReturn(t, FALSE, {})
  \/ \E c \in DispatchCallbacks \ Range(asyncCallbacks) : AddAsyncCallback(c)
  \/ \E c \in DispatchCallbacks : RemoveCallback(c)

SpecDispatch ==
  InitDispatch /\ [][NextDispatch]_vars

\* the number of times c was awaited in the last dispatch that ended
TimesGot(c) ==
  Cardinality({i \in 1..Len(lastDone.got) : lastDone.got[i] = c})

\* the place of c in the list q
PlaceIn(q, c) ==
  CHOOSE k \in 1..Len(q) : q[k] = c

\* C24: one event is in dispatch at a time, and a dispatch that ended invoked
\* every synchronous callback, then every asynchronous callback registered
\* (from its start to its end) exactly once and no callback more than once,
\* in registration order, also when callbacks were added or removed while an
\* asynchronous callback was suspended.
C24_SequentialDispatch ==
  /\ Cardinality({t \in TaskIds : tasks[t].pc = "cb"}) <= 1
  /\ lastDone.nsync = lastDone.rsync
  /\ \A c \in Range(lastDone.atStart) \cap Range(lastDone.atEnd) : TimesGot(c) = 1
  /\ \A c \in Range(lastDone.got) : TimesGot(c) = 1
  /\ \A i, j \in 1..Len(lastDone.got) :
       (/\ i < j
        /\ lastDone.got[i] \in Range(lastDone.atEnd)
        /\ lastDone.got[j] \in Range(lastDone.atEnd))
         => PlaceIn(lastDone.atEnd, lastDone.got[i]) < PlaceIn(lastDone.atEnd, lastDone.got[j])

\* C25: every fetch is issued with the bound last-seen version + 1, so no
\* version that a loop has already processed is requested again.
C25_FetchFromNextVersion ==
  [][\A t \in TaskIds :
       (tasks'[t].pc = "fetch" /\ tasks[t].pc # "fetch")
         => tasks'[t].start = lastVersion' + 1]_vars

\* C26: an address taken out by remove_blocked_address comes back into the
\* blocked-address set (where check_transaction looks senders and receivers
\* up) only by being blocked again: a step that only switches a policy off,
\* the first half of toggling it off and on, adds no address to the set.
C26_ToggleBlocksNothing ==
  [][(\E i \in 1..Len(policies) :
        /\ policies[i].enabled
        /\ policies' = [policies EXCEPT ![i].enabled = FALSE])
      => blocked' \subseteq blocked]_vars

\* --------------------- SpecAlert: WebSocket clients, one loop and the engine
AlertClients ==
  {"c1", "c2"}

\* pages of one record; the gas of the second is above the default ceiling
AlertPages ==
  {<<GoodTx(1, AddrAB)>>,
   <<[GoodTx(2, AddrCD) EXCEPT !.gas = VersionString(200000)]>>}

\* addresses a caller may block: an address and the empty string
AlertBlocked ==
  {AddrAB, <<>>}

InitAlert ==
  /\ InitMonitor
  /\ callbacks = <<>>
  /\ InitEngine
  /\ InitCalls

NextAlert ==
  \/ \E c \in AlertClients \ Range(connections) :
       Len(asyncCallbacks) < MaxAsync /\ Connect(c)
  \/ \E c \in AlertClients : Disconnect(c)
  \/ Start(1)
  \/ \E t \in TaskIds : LoopBegin(t, TRUE)
  \/ \E t \in TaskIds : LedgerReturn(t, 0)
  \/ \E t \in TaskIds, txs \in AlertPages : FetchReturn(t, txs, {})
  \/ \E t \in TaskIds : SleepReturn(t)
  \/ \E t \in TaskIds : AsyncReturn(t, FALSE, {})
  \/ \E a \in AlertBlocked : blocked = {} /\ AddBlockedAddress(a)

SpecAlert ==
  InitAlert /\ [][NextAlert]_vars

\* C27: however many clients have connected before, an event brings a client
\* one new_transaction notification, and the alert handler is invoked once in
\* the dispatch of an event.
C27_OneNotificationPerEvent ==
  /\ \A i, j \in 1..Len(broadcast) :
       (/\ i < j
        /\ broadcast[i].type = "new_transaction"
        /\ broadcast[j].type = "new_transaction"
        /\ broadcast[i].to = broadcast[j].to)
         => broadcast[i].version # broadcast[j].version
  /\ TimesGot(AlertHandler) <= 1

\* C29: the check made for a delivered event has value 0 and no receiver, no
\* transaction-value policy (the ceiling is non-negative) and no receiver
\* side of a blocked-address policy gives a violation in it, and the alert is
\* broadcast exactly when the check has a violation: a score of 30 or more
\* comes with a violation only.
C29_MonitoredEventCheck ==
  handled.called =>
    /\ checked.receiver = NoReceiver
    /\ checked.value = <<0, 0>>
    /\ \A i \in 1..Len(checked.violations) :
         /\ checked.violations[i].ptype # "transaction_value"
         /\ checked.violations[i].role # "receiver"
    /\ handled.alert <=> Len(checked.violations) > 0
    /\ scored.score >= 30 => ~checked.passed
\* ------------- SpecSeen: the allow-list changes while the ledger is polled, and
\* the monitor is stopped (while it runs) and started again (while it is stopped)
SeenTasks == 2

\* the ledger: version 1 is sent by 0xab, version 2 by 0xcd, and the record of
\* version 3 has a gas_used that int() refuses
SeenLedger ==
  <<GoodTx(1, AddrAB), GoodTx(2, AddrCD), [GoodTx(3, AddrAB) EXCEPT !.gas = <<>>]>>

\* get_transactions(start=start): the records from version start on, as far as
\* the ledger has grown and the page limit allows
SeenPages(start) ==
  {SubSeq(SeenLedger, IF start < 1 THEN 1 ELSE start, n) : n \in 0..Len(SeenLedger)}

SeenAddresses ==
  {AddrCD}

InitSeen ==
  /\ InitMonitor
  /\ InitEngine
  /\ InitCalls
  /\ callbacks = <<"s">>

NextSeen ==
  \/ ~running /\ Start(SeenTasks)
  \/ running /\ Stop
  \/ \E t \in TaskIds : StopResume(t)
  \/ \E t \in TaskIds : Cancelled(t)
  \/ \E t \in TaskIds : LoopBegin(t, TRUE)
  \/ \E t \in TaskIds, h \in {NoVersion, Len(SeenLedger)} : LedgerReturn(t, h)
  \/ \E t \in TaskIds : \E txs \in SeenPages(tasks[t].start) : FetchReturn(t, txs, {})
  \/ \E t \in TaskIds : SleepReturn(t)
  \/ \E a \in SeenAddresses : AddMonitoredAddress(a)
  \/ \E a \in SeenAddresses : RemoveMonitoredAddress(a)

SpecSeen ==
  InitSeen /\ [][NextSeen]_vars

\* C28: the last-seen version has advanced to (or past) every record that was
\* newer and was rejected by the allow-list or failed parsing, and an event that
\* is delivered and buffered is never one the allow-list rejected before,
\* whatever was added to the allow-list since.
C28_RejectedNeverDelivered ==
  [][/\ \A r \in rejected' \ rejected : r.version <= OrZero(lastVersion')
     /\ \A i \in (Len(delivered) + 1)..Len(delivered') :
          Rejected(delivered'[i].version, delivered'[i].sender, TRUE) \notin rejected]_vars

\* a result or report that was supplied and has no findings
Clean(argument) ==
  argument.given /\ Len(argument.items) = 0

\* C30: a supplied result or report without findings is a category of the
\* breakdown with sub-score 0 and weighs in the mean: the score of a call with a
\* clean compliance result, or with an empty anomaly report, is never above
\* the score of the same call without that argument, and a clean compliance
\* result next to a vulnerability sub-score of 100 alone gives score 53, level
\* medium
C30_CleanReportCounts ==
  scored.called =>
    /\ Clean(scored.compliance) =>
         /\ "compliance" \in DOMAIN scored.breakdown
         /\ scored.breakdown["compliance"] = 0
         /\ scored.score <= RiskScore(NotGiven, scored.vulnerability, scored.anomaly).score
    /\ Clean(scored.vulnerability) =>
         /\ "vulnerability" \in DOMAIN scored.breakdown
         /\ scored.breakdown["vulnerability"] = 0
    /\ Clean(scored.anomaly) =>
         /\ "anomaly" \in DOMAIN scored.breakdown
         /\ scored.breakdown["anomaly"] = 0
         /\ scored.score <= RiskScore(scored.compliance, scored.vulnerability, NotGiven).score
    /\ ( /\ Clean(scored.compliance)
         /\ scored.vulnerability.given
         /\ ~scored.anomaly.given
         /\ ScoreVulnerabilities(scored.vulnerability) = 100 )
       => scored.score = 53 /\ scored.level = "medium"

\* the call with a clean compliance result and a vulnerability report of
\* sub-score 100 was made: it scored 53, and 100 without the compliance result
C30_Witness ==
  /\ scored.called
  /\ Clean(scored.compliance)
  /\ scored.vulnerability.given
  /\ ~scored.anomaly.given
  /\ scored.breakdown["vulnerability"] = 100
  /\ scored.score = 53
  /\ RiskScore(NotGiven, scored.vulnerability, NotGiven).score = 100
====
